---- MODULE Spec2Model ----
(***************************************************************************)
(* Model of sisl/_plugs.py (PlugsMixin: attribute interception and hook    *)
(* composition) and sisl/mixing/base.py (History: bounded per-variable     *)
(* deques).                                                                *)
(***************************************************************************)
EXTENDS Integers, Sequences, FiniteSets, TLC

\* ---------------------------------------------------------------- bounds
MaxHist == 4
MaxVars == 2
MaxAppends == 4
\* Metric.inner: length of the operand vectors and size of their entries
MaxLen == 2
MaxAbs == 2

\* ------------------------------------------------------ names and inputs
\* names under which attachments are stored in host._plugs
PlugNames == {"A", "B"}
\* members of the host class: callables and one data attribute
Callables == {"op", "op2", "op_pos", "copy"}
DataMembers == {"data"}
\* names read through attribute access
AccessNames == Callables \cup DataMembers \cup {"A", "B", "x"}
\* names written through attribute assignment
SetNames == {"A", "x"}
PlainValue == 7
\* keyword arguments of a call: a set of <<key, value>> pairs
NoKw == {}
KwInplace(b) == {<<"inplace", b>>}
ArgChoices == {<< >>, <<1>>}
Receivers == {"host", "other"}
\* conditions a hook or the operation may raise
Conditions == {"ValueError", "RuntimeError"}

\* the callables whose signature declares an `inplace` parameter
\* (what inspect.getfullargspec(attr) reports, _plugs.py:81-82)
Declares(n) == n \in {"op", "op_pos"}
\* the callables whose `inplace` is the first positional parameter after
\* obj, op_pos(obj, inplace=False): a positional argument binds to it.  op
\* takes it keyword-only, op(obj, *args, inplace=False); op2(obj, *args)
\* has none.
InplaceFirst(n) == n = "op_pos"

NoHeld == [kind |-> "none", name |-> "", val |-> 0, pre |-> << >>, post |-> << >>]
NoCall == [fn |-> "", wrapped |-> FALSE, recv |-> "", args |-> << >>,
           kwIn |-> {}, argsHook |-> << >>, kwHook |-> {}, kwOp |-> {},
           copied |-> FALSE,
           trace |-> << >>, before |-> << >>, after |-> << >>,
           result |-> << >>, resultIs |-> "none", err |-> "none",
           failAt |-> 0, raised |-> "none"]

VARIABLES bound,      \* the host has a `_plugs` mapping that ordinary lookup finds
          plugs,      \* host._plugs: sequence (insertion order) of attachments
          instAttrs,  \* instance attributes set through __setattr__
          held,       \* result of the last attribute read
          call,       \* record of the last invocation of the held callable; a
                      \* receiver's state is the sequence of marks that mutators
                      \* left on it since the snapshot taken before the call
          last,       \* last operation and the condition it raised
          hist,       \* History._hist: one deque per variable
          hmax,       \* maxlen of the deques
          appended,   \* per variable: what the slot held after the last clear,
                      \* followed by every value appended to it since (observer)
          napp,       \* number of append calls that went through
          hlast,      \* last History operation and the condition it raised
          coupled,    \* every operation so far had `variables` omitted and no
                      \* clear stopped midway (observer)
          metric,     \* Metric.inner: operands, transform and value returned
          two         \* two History instances read through the cached properties

vars == <<bound, plugs, instAttrs, held, call, last, hist, hmax, appended, napp, hlast, coupled, metric, two>>
plugVars == <<bound, plugs, instAttrs, held, call, last>>
histVars == <<hist, hmax, appended, napp, hlast, coupled>>
auxVars == <<metric, two>>

\* ------------------------------------------------------------ helpers
Rev(s) == [i \in 1..Len(s) |-> s[Len(s) + 1 - i]]
Range(s) == {s[i] : i \in 1..Len(s)}
PlugNamesOf(ps) == {ps[i].name : i \in 1..Len(ps)}
HasKw(kw, k) == \E p \in kw : p[1] = k
KwVal(kw, k) == (CHOOSE p \in kw : p[1] = k)[2]

\* a hook is identified by <<attachment, phase, key it is registered under>>
Hook(plug, phase, key) == <<plug, phase, key>>
OpMark(n) == <<n, "op", n>>

\* ------------------------------------------- PlugsMixin.__getattribute__
\* object.__getattribute__: instance attributes, then class members
OrdinaryHas(attrs, n) == n \in DOMAIN attrs \/ n \in Callables \/ n \in DataMembers
OrdinaryCallable(attrs, n) == n \notin DOMAIN attrs /\ n \in Callables

\* the key the dispatcher looks up in plug.pre_hooks / plug.post_hooks:
\* the loop `for name, plug in self._plugs.items()` rebinds `name`, so the
\* key is the name the attachment is stored under, not the accessed name
HookKey(accessed, plugname) == plugname

RECURSIVE Funcs(_, _, _)
Funcs(ps, accessed, phase) ==
    IF ps = << >> THEN << >>
    ELSE LET p == Head(ps)
             k == HookKey(accessed, p.name)
             reg == IF phase = "pre" THEN p.pre ELSE p.post
         IN (IF k \in reg THEN <<Hook(p.name, phase, k)>> ELSE << >>)
            \o Funcs(Tail(ps), accessed, phase)

pre_funcs(ps, accessed) == Funcs(ps, accessed, "pre")
post_funcs(ps, accessed) == Funcs(ps, accessed, "post")

Raised(n, e) == [kind |-> e, name |-> n, val |-> 0, pre |-> << >>, post |-> << >>]

\* PlugsMixin.__getattr__: reached when ordinary lookup fails.  Reading
\* self._plugs is itself an attribute read; when no `_plugs` exists it
\* fails, re-enters __getattr__ and recurses until RecursionError.
GetAttr_KeyError(b, ps, n) ==
    IF ~b THEN Raised(n, "RecursionError")
    ELSE IF n \in PlugNamesOf(ps)
         THEN [kind |-> "plug", name |-> n, val |-> 0, pre |-> << >>, post |-> << >>]
         ELSE Raised(n, "KeyError")

GetAttr(b, ps, n) ==
    IF ~b THEN Raised(n, "RecursionError")
    ELSE IF n \in PlugNamesOf(ps)
         THEN [kind |-> "plug", name |-> n, val |-> 0, pre |-> << >>, post |-> << >>]
         ELSE Raised(n, "AttributeError")

GetAttribute(b, ps, attrs, n) ==
    IF ~OrdinaryHas(attrs, n) THEN GetAttr(b, ps, n)
    ELSE IF ~OrdinaryCallable(attrs, n)
         THEN [kind |-> "data", name |-> n,
               val |-> IF n \in DOMAIN attrs THEN attrs[n] ELSE 0,
               pre |-> << >>, post |-> << >>]
    ELSE IF ~b THEN Raised(n, "RecursionError")
    ELSE LET pre == pre_funcs(ps, n)
             post == post_funcs(ps, n)
         IN IF pre = << >> /\ post = << >>
            THEN [kind |-> "attr", name |-> n, val |-> 0, pre |-> << >>, post |-> << >>]
            ELSE [kind |-> "combi", name |-> n, val |-> 0, pre |-> pre, post |-> post]

\* ------------------------------------------------ the wrapped operation
\* attr(obj, *args, **kwargs): the member follows the in-place convention;
\* with inplace=True it mutates obj and returns it, otherwise it returns a
\* new value and leaves obj alone.  w is [st, is]: state and identity of obj.
\* Binding *args and **kwargs to the member's parameters: a positional
\* argument that lands on `inplace` together with an inplace keyword is
\* "got multiple values for argument 'inplace'" (TypeError), raised before
\* the member's body runs.
BindFails(n, args, kw) == InplaceFirst(n) /\ args # << >> /\ HasKw(kw, "inplace")
\* the value the member's `inplace` parameter is bound to (default False)
BoundInplace(n, args, kw) ==
    IF HasKw(kw, "inplace") THEN KwVal(kw, "inplace")
    ELSE IF InplaceFirst(n) /\ args # << >> THEN Head(args) # 0
    ELSE FALSE
Attr(n, w, args, kw) ==
    IF BindFails(n, args, kw)
    THEN [work |-> w, left |-> w.st, err |-> "TypeError"]
    ELSE IF BoundInplace(n, args, kw)
    THEN [work |-> [st |-> Append(w.st, OpMark(n)), is |-> w.is],
          left |-> Append(w.st, OpMark(n)), err |-> "none"]
    ELSE [work |-> [st |-> Append(w.st, OpMark(n)), is |-> "new"],
          left |-> w.st, err |-> "none"]

\* ---------------------------------------------------------- combi_hook
\* the effective local flag of lines 77-79
InplaceFlag(kw) == IF HasKw(kw, "inplace") THEN KwVal(kw, "inplace") ELSE FALSE
\* the keyword arguments after lines 80-84
SynthKw_always(n, kw) ==
    IF HasKw(kw, "inplace") THEN kw ELSE kw \cup KwInplace(TRUE)
SynthKw(n, kw) ==
    IF HasKw(kw, "inplace") THEN kw
    ELSE IF Declares(n) THEN kw \cup KwInplace(TRUE) ELSE kw
\* line 85: whether the working value is rebound to a copy
TakesCopy_never(kw) == FALSE
TakesCopy_always(kw) == TRUE
TakesCopy(kw) == ~InplaceFlag(kw)
\* the keyword arguments handed to the hooks (lines 89, 92)
HookKw_callerOnly(n, kw) == kw
HookKw(n, kw) == SynthKw(n, kw)

\* obj.copy() at line 86 is an attribute read on obj followed by a call with
\* no arguments: when obj is the host and the read yields a combi_hook, the
\* call lacks the positional `obj` and raises TypeError
CopyFails(recv, b, ps, attrs) ==
    recv = "host" /\ GetAttribute(b, ps, attrs, "copy").kind # "attr"

ApplyHooks(st, hs) == st \o hs

\* the steps of one hooked call, in the order lines 88-92 run them
Chain(h) == h.pre \o <<OpMark(h.name)>> \o Rev(h.post)

combi_hook_recomputes(h, recv, st, args, kw, b, ps, attrs) ==
    LET kw2 == SynthKw(h.name, kw)
        cp == TakesCopy(kw)
        pre == pre_funcs(ps, h.name)
        post == post_funcs(ps, h.name)
        base == [NoCall EXCEPT !.fn = h.name, !.wrapped = TRUE, !.recv = recv,
                               !.args = args, !.kwIn = kw, !.before = st,
                               !.after = st]
    IN IF cp /\ CopyFails(recv, b, ps, attrs)
       THEN [base EXCEPT !.err = "TypeError"]
       ELSE LET w0 == [st |-> st, is |-> IF cp THEN "copy" ELSE "recv"]
                w1 == [st |-> ApplyHooks(w0.st, pre), is |-> w0.is]
                r  == Attr(h.name, w1, args, kw2)
                w2 == r.work
                w3 == [st |-> ApplyHooks(w2.st, Rev(post)), is |-> w2.is]
            IN IF r.err # "none"
               THEN [base EXCEPT !.argsHook = args, !.kwHook = HookKw(h.name, kw),
                                 !.kwOp = kw2, !.copied = cp, !.trace = pre,
                                 !.after = IF cp THEN st ELSE w1.st,
                                 !.err = r.err]
               ELSE
               [base EXCEPT !.argsHook = args, !.kwHook = HookKw(h.name, kw),
                            !.kwOp = kw2,
                            !.copied = cp,
                            !.trace = pre \o <<OpMark(h.name)>> \o Rev(post),
                            !.after = IF w0.is # "recv" THEN st
                                      ELSE IF w3.is = "recv" THEN w3.st
                                      ELSE r.left,
                            !.result = w3.st, !.resultIs = w3.is]

combi_hook(h, recv, st, args, kw, b, ps, attrs) ==
    LET kw2 == SynthKw(h.name, kw)
        cp == TakesCopy(kw)
        base == [NoCall EXCEPT !.fn = h.name, !.wrapped = TRUE, !.recv = recv,
                               !.args = args, !.kwIn = kw, !.before = st,
                               !.after = st]
    IN IF cp /\ CopyFails(recv, b, ps, attrs)
       THEN [base EXCEPT !.err = "TypeError"]
       ELSE LET w0 == [st |-> st, is |-> IF cp THEN "copy" ELSE "recv"]
                w1 == [st |-> ApplyHooks(w0.st, h.pre), is |-> w0.is]
                r  == Attr(h.name, w1, args, kw2)
                w2 == r.work
                w3 == [st |-> ApplyHooks(w2.st, Rev(h.post)), is |-> w2.is]
            IN IF r.err # "none"
               THEN \* line 90 raised: the pre-hooks have run, nothing else
                    [base EXCEPT !.argsHook = args, !.kwHook = HookKw(h.name, kw),
                                 !.kwOp = kw2, !.copied = cp, !.trace = h.pre,
                                 !.after = IF cp THEN st ELSE w1.st,
                                 !.err = r.err]
               ELSE
               [base EXCEPT !.argsHook = args, !.kwHook = HookKw(h.name, kw),
                            !.kwOp = kw2,
                            !.copied = cp,
                            !.trace = h.pre \o <<OpMark(h.name)>> \o Rev(h.post),
                            !.after = IF w0.is # "recv" THEN st
                                      ELSE IF w3.is = "recv" THEN w3.st
                                      ELSE r.left,
                            !.result = w3.st, !.resultIs = w3.is]

\* combi_hook when step number `at` of the chain raises condition e; dirty
\* tells whether that step had already mutated its argument when it raised.
\* Nothing in lines 76-93 catches: the steps after it do not run and the
\* condition leaves combi_hook as raised.  When the arguments do not bind to
\* the operation, line 90 raises TypeError before the operation's body or
\* any post-hook gets to run.
combi_hook_raise_continues(h, recv, st, args, kw, b, ps, attrs, at, e, dirty) ==
    [combi_hook(h, recv, st, args, kw, b, ps, attrs) EXCEPT !.failAt = at, !.raised = e]

combi_hook_raise(h, recv, st, args, kw, b, ps, attrs, at, e, dirty) ==
    LET kw2 == SynthKw(h.name, kw)
        cp == TakesCopy(kw)
        chain == Chain(h)
        marks == SubSeq(chain, 1, at - 1) \o (IF dirty THEN <<chain[at]>> ELSE << >>)
        base == [NoCall EXCEPT !.fn = h.name, !.wrapped = TRUE, !.recv = recv,
                               !.args = args, !.kwIn = kw, !.before = st,
                               !.after = st]
    IN IF cp /\ CopyFails(recv, b, ps, attrs)
       THEN [base EXCEPT !.err = "TypeError"]
       ELSE IF at > Len(h.pre) /\ BindFails(h.name, args, kw2)
       THEN combi_hook(h, recv, st, args, kw, b, ps, attrs)
       ELSE [base EXCEPT !.argsHook = args, !.kwHook = HookKw(h.name, kw),
                         !.kwOp = kw2,
                         !.copied = cp,
                         !.trace = SubSeq(chain, 1, at),
                         !.after = IF cp THEN st ELSE ApplyHooks(st, marks),
                         !.failAt = at, !.raised = e, !.err = e]

\* calling the original callable directly (what the access returned at
\* lines 57/73 when no hook list is built)
plain_call(h, recv, st, args, kw) ==
    LET r == Attr(h.name, [st |-> st, is |-> "recv"], args, kw)
        base == [NoCall EXCEPT !.fn = h.name, !.recv = recv, !.args = args,
                               !.kwIn = kw, !.kwOp = kw, !.before = st,
                               !.after = st]
    IN IF r.err # "none"
       THEN [base EXCEPT !.err = r.err]
       ELSE [base EXCEPT !.trace = <<OpMark(h.name)>>,
                         !.after = r.left, !.result = r.work.st,
                         !.resultIs = r.work.is]

\* ------------------------------------------------- PlugsMixin.__setattr__
\* line 49: the membership test that rejects the write
SetAttrRejects_never(ps, n) == FALSE
SetAttrRejects(ps, n) == n \in PlugNamesOf(ps)

NoLast == [op |-> "none", name |-> "", err |-> "none"]
\* "all" when `variables` is omitted
Which(sel) == IF sel.none THEN "all" ELSE "some"
\* what a History operation did: its name, the slots it went on to work on
\* (none when it stopped at the length test), what it raised
HNone == [op |-> "none", name |-> "", tg |-> << >>, err |-> "none"]
HDid(o, sel, tg, e) == [op |-> o, name |-> Which(sel), tg |-> tg, err |-> e]
NoMetric == [a |-> << >>, b |-> << >>, m |-> "none", dot |-> FALSE, res |-> 0, done |-> FALSE]
\* the one entry an lru_cache(maxsize=1) holds: the instance it was computed
\* for (0: empty) and the value
NoCache == [key |-> 0, val |-> 0]
NoTwo == [h |-> << >>, vcache |-> NoCache, mcache |-> NoCache,
          rd |-> "none", who |-> 0, val |-> 0]
Did(o, n, e) == [op |-> o, name |-> n, err |-> e]

\* ------------------------------------------------------------- actions
\* PlugsMixin.__init__: `self._plugs = dict()` goes through __setattr__,
\* whose test `name in self._plugs` reads the attribute being created
Construct ==
    /\ IF bound
       THEN /\ plugs' = << >>
            /\ last' = Did("init", "_plugs", "none")
       ELSE /\ plugs' = plugs
            /\ last' = Did("init", "_plugs", "RecursionError")
    /\ UNCHANGED <<bound, instAttrs, held, call>>
    /\ UNCHANGED histVars
    /\ UNCHANGED auxVars

\* the host supplies the mapping used as attachment storage
\* (obj.__dict__["_plugs"] = {}), without going through __setattr__
BindPlugs ==
    /\ ~bound
    /\ bound' = TRUE
    /\ plugs' = << >>
    /\ last' = Did("bind", "_plugs", "none")
    /\ UNCHANGED <<instAttrs, held, call>>
    /\ UNCHANGED histVars
    /\ UNCHANGED auxVars

\* host._plugs[n] = plug, with plug.pre_hooks / plug.post_hooks keyed by pre / post
AddPlug(n, pre, post) ==
    /\ bound
    /\ n \notin PlugNamesOf(plugs)
    /\ plugs' = Append(plugs, [name |-> n, pre |-> pre, post |-> post])
    /\ last' = Did("add", n, "none")
    /\ UNCHANGED <<bound, instAttrs, held, call>>
    /\ UNCHANGED histVars
    /\ UNCHANGED auxVars

\* del host._plugs[n]
RemovePlug(n) ==
    /\ bound
    /\ n \in PlugNamesOf(plugs)
    /\ plugs' = SelectSeq(plugs, LAMBDA p : p.name # n)
    /\ last' = Did("remove", n, "none")
    /\ UNCHANGED <<bound, instAttrs, held, call>>
    /\ UNCHANGED histVars
    /\ UNCHANGED auxVars

\* host.n = v
SetAttr(n, v) ==
    /\ IF ~bound
       THEN /\ instAttrs' = instAttrs
            /\ last' = Did("setattr", n, "RecursionError")
       ELSE IF SetAttrRejects(plugs, n)
       THEN /\ instAttrs' = instAttrs
            /\ last' = Did("setattr", n, "AttributeError")
       ELSE /\ instAttrs' = [m \in DOMAIN instAttrs \cup {n} |->
                                IF m = n THEN v ELSE instAttrs[m]]
            /\ last' = Did("setattr", n, "none")
    /\ UNCHANGED <<bound, plugs, held, call>>
    /\ UNCHANGED histVars
    /\ UNCHANGED auxVars

\* f = host.n
Access(n) ==
    /\ held' = GetAttribute(bound, plugs, instAttrs, n)
    /\ call' = NoCall
    /\ last' = Did("getattr", n,
                   IF held'.kind \in {"AttributeError", "RecursionError"}
                   THEN held'.kind ELSE "none")
    /\ UNCHANGED <<bound, plugs, instAttrs>>
    /\ UNCHANGED histVars
    /\ UNCHANGED auxVars

\* f(recv, *args, **kw) for the callable f obtained by the last read; the
\* caller passes `inplace` only to a callable that declares it
Call(recv, args, kw) ==
    /\ held.kind \in {"attr", "combi"}
    /\ held.name \in {"op", "op2", "op_pos"}
    /\ HasKw(kw, "inplace") => Declares(held.name)
    /\ LET c == IF held.kind = "combi"
                THEN combi_hook(held, recv, << >>, args, kw, bound, plugs, instAttrs)
                ELSE plain_call(held, recv, << >>, args, kw)
       IN /\ call' = c
          /\ last' = Did("call", held.name, c.err)
    /\ UNCHANGED <<bound, plugs, instAttrs, held>>
    /\ UNCHANGED histVars
    /\ UNCHANGED auxVars

\* f(recv, *args, **kw) for a hooked callable one of whose steps raises
CallRaising(recv, args, kw, at, e, dirty) ==
    /\ held.kind = "combi"
    /\ held.name \in {"op", "op2", "op_pos"}
    /\ HasKw(kw, "inplace") => Declares(held.name)
    /\ at \in 1..Len(Chain(held))
    /\ LET c == combi_hook_raise(held, recv, << >>, args, kw, bound, plugs, instAttrs,
                                 at, e, dirty)
       IN /\ call' = c
          /\ last' = Did("call", held.name, c.err)
    /\ UNCHANGED <<bound, plugs, instAttrs, held>>
    /\ UNCHANGED histVars
    /\ UNCHANGED auxVars

\* what an attachment registers: nothing, hooks for the operation `op`, or
\* hooks under the name it is stored under
HookMenu(n) == { [pre |-> {}, post |-> {}],
                 [pre |-> {"op"}, post |-> {"op"}],
                 [pre |-> {"op"}, post |-> {}],
                 [pre |-> {n}, post |-> {}],
                 [pre |-> {}, post |-> {n}],
                 [pre |-> {n}, post |-> {n}] }

Init ==
    /\ bound = FALSE
    /\ plugs = << >>
    /\ instAttrs = << >>
    /\ held = NoHeld
    /\ call = NoCall
    /\ last = NoLast
    /\ hist = << >>
    /\ hmax = 0
    /\ appended = << >>
    /\ napp = 0
    /\ hlast = HNone
    /\ coupled = TRUE
    /\ metric = NoMetric
    /\ two = NoTwo

AddSome == \E n \in PlugNames : \E m \in HookMenu(n) : AddPlug(n, m.pre, m.post)
RemoveSome == \E n \in PlugNames : RemovePlug(n)
AccessSome == \E n \in AccessNames : Access(n)
CallSome == \E recv \in Receivers : \E args \in ArgChoices :
               \E kw \in {NoKw, KwInplace(TRUE), KwInplace(FALSE)} : Call(recv, args, kw)

\* attribute protocol: construction, reads and writes
Next ==
    \/ Construct
    \/ BindPlugs
    \/ AddSome
    \/ RemoveSome
    \/ \E n \in SetNames : SetAttr(n, PlainValue)
    \/ AccessSome

Spec == Init /\ [][Next]_vars

\* hooked and unhooked calls
NextCall ==
    \/ BindPlugs
    \/ AddSome
    \/ RemoveSome
    \/ AccessSome
    \/ CallSome

SpecCall == Init /\ [][NextCall]_vars

ChainSteps == 2 * Cardinality(PlugNames) + 1
RaiseSome == \E recv \in Receivers : \E kw \in {NoKw, KwInplace(TRUE), KwInplace(FALSE)} :
                \E at \in 1..ChainSteps : \E e \in Conditions : \E dirty \in BOOLEAN :
                   CallRaising(recv, <<1>>, kw, at, e, dirty)

\* hooked calls in which a hook or the operation raises
NextRaise ==
    \/ BindPlugs
    \/ AddSome
    \/ AccessSome
    \/ RaiseSome

SpecRaise == Init /\ [][NextRaise]_vars

\* ---------------------------------------------------------------- History
\* the values of the c-th append call: distinct from every earlier value
FreshArgs(c, k) == [j \in 1..k |-> 10 * c + j]

\* the `variables` / `index` keyword: None, or a list of 0-based positions
None == [none |-> TRUE, list |-> << >>]
Given(l) == [none |-> FALSE, list |-> l]

\* deque.append on a deque(maxlen=m): a full deque drops its oldest element
DequeAppend_keepsOldest(d, x, m) ==
    IF m = 0 THEN d
    ELSE IF Len(d) >= m THEN d
    ELSE Append(d, x)
DequeAppend(d, x, m) ==
    IF m = 0 THEN d
    ELSE IF Len(d) >= m THEN Append(Tail(d), x)
    ELSE Append(d, x)

\* History.variables / history_max / history
variables(hs) == Len(hs)
history_max(m) == m
history(hs) == Len(hs[1])

\* lines 103-107: the list of target slots
Targets(hs, sel) ==
    IF sel.none THEN [i \in 1..variables(hs) |-> i - 1] ELSE sel.list

\* lines 111-112: zip(variables, args), appended one after the other
AppendAll_firstOnly(hs, m, tg, args) ==
    IF tg = << >> \/ args = << >> THEN hs
    ELSE [hs EXCEPT ![Head(tg) + 1] = DequeAppend(@, Head(args), m)]
RECURSIVE AppendAll(_, _, _, _)
AppendAll(hs, m, tg, args) ==
    IF tg = << >> \/ args = << >> THEN hs
    ELSE AppendAll([hs EXCEPT ![Head(tg) + 1] = DequeAppend(@, Head(args), m)],
                   m, Tail(tg), Tail(args))

RECURSIVE NoteAll(_, _, _)
NoteAll(ap, tg, args) ==
    IF tg = << >> \/ args = << >> THEN ap
    ELSE NoteAll([ap EXCEPT ![Head(tg) + 1] = Append(@, Head(args))],
                 Tail(tg), Tail(args))


\* line 108: the length test
LengthMismatch_never(args, tg) == FALSE
LengthMismatch(args, tg) == Len(args) # Len(tg)

\* History.append(*args, variables=sel)
HAppend(args, sel) ==
    /\ LET tg == Targets(hist, sel)
       IN IF LengthMismatch(args, tg)
          THEN /\ hist' = hist
               /\ appended' = appended
               /\ napp' = napp
               /\ coupled' = coupled
               /\ hlast' = HDid("append", sel, << >>, "ValueError")
          ELSE /\ napp < MaxAppends
               /\ napp' = napp + 1
               /\ hist' = AppendAll(hist, hmax, tg, args)
               /\ appended' = NoteAll(appended, tg, args)
               /\ coupled' = (coupled /\ sel.none)
               /\ hlast' = HDid("append", sel, tg, "none")
    /\ UNCHANGED <<hmax>>
    /\ UNCHANGED plugVars
    /\ UNCHANGED auxVars

\* h.append(x1, .., xk, variables=sel) with fresh values
AppendFresh(k, sel) == HAppend(FreshArgs(napp + 1, k), sel)

\* list.sort(reverse=True), line 134
RECURSIVE InsertDesc(_, _)
InsertDesc(s, x) ==
    IF s = << >> THEN <<x>>
    ELSE IF x > Head(s) THEN <<x>> \o s
    ELSE <<Head(s)>> \o InsertDesc(Tail(s), x)
SortDesc_unsorted(s) == s
RECURSIVE SortDesc(_)
SortDesc(s) == IF s = << >> THEN << >> ELSE InsertDesc(SortDesc(Tail(s)), Head(s))

\* del d[i] for a 0-based, possibly negative position i
DelOk(d, i) == IF i < 0 THEN -i <= Len(d) ELSE i < Len(d)
DelAt(d, i) ==
    LET k == IF i < 0 THEN Len(d) + i + 1 ELSE i + 1
    IN [j \in 1..(Len(d) - 1) |-> IF j < k THEN d[j] ELSE d[j + 1]]

\* lines 135-137: the deletions run in order and stop at the first IndexError
RECURSIVE ClearIdx(_, _, _, _)
ClearIdx(hs, tg, idx, rest) ==
    IF tg = << >> THEN [hs |-> hs, err |-> "none"]
    ELSE IF rest = << >> THEN ClearIdx(hs, Tail(tg), idx, idx)
    ELSE IF ~DelOk(hs[Head(tg) + 1], Head(rest)) THEN [hs |-> hs, err |-> "IndexError"]
    ELSE ClearIdx([hs EXCEPT ![Head(tg) + 1] = DelAt(@, Head(rest))], tg, idx, Tail(rest))

ClearWhole_everySlot(hs, tg) == [i \in 1..Len(hs) |-> << >>]
RECURSIVE ClearWhole(_, _)
ClearWhole(hs, tg) ==
    IF tg = << >> THEN hs
    ELSE ClearWhole([hs EXCEPT ![Head(tg) + 1] = << >>], Tail(tg))

\* History.clear(index=index, variables=sel)
HClear(index, sel) ==
    /\ LET tg == Targets(hist, sel)
           r == IF index.none
                THEN [hs |-> ClearWhole(hist, tg), err |-> "none"]
                ELSE LET idx == SortDesc(index.list)
                     IN ClearIdx(hist, tg, idx, idx)
       IN /\ hist' = r.hs
          /\ appended' = r.hs
          /\ coupled' = (coupled /\ sel.none /\ r.err = "none")
          /\ hlast' = HDid("clear", sel, tg, r.err)
    /\ UNCHANGED <<hmax, napp>>
    /\ UNCHANGED plugVars
    /\ UNCHANGED auxVars

\* History.__init__(history=h, variables=v), lines 69-71
InitHist ==
    /\ bound = FALSE
    /\ plugs = << >>
    /\ instAttrs = << >>
    /\ held = NoHeld
    /\ call = NoCall
    /\ last = NoLast
    /\ \E h \in 0..MaxHist : \E v \in 1..MaxVars :
          /\ hmax = h
          /\ hist = [i \in 1..v |-> << >>]
          /\ appended = [i \in 1..v |-> << >>]
    /\ napp = 0
    /\ hlast = HNone
    /\ coupled = TRUE
    /\ metric = NoMetric
    /\ two = NoTwo

\* the selections tried: none, the first slot, the last and the first slot
SelChoices(hs) == {None, Given(<<0>>), Given(<<Len(hs) - 1, 0>>)}

\* the selections and positions tried when a History is also cleared
SelFew(hs) == {None, Given(<<Len(hs) - 1>>)}
IdxChoices == {None} \cup {Given(l) : l \in {<<0>>, <<2>>, <<0, 2>>, <<2, 0>>,
                                               <<-2>>, <<-2, 2>>, <<0, 0>>}}

AppendSome == \E k \in 0..MaxVars : \E sel \in SelChoices(hist) : AppendFresh(k, sel)
AppendFew == \E k \in 1..MaxVars : \E sel \in SelFew(hist) : AppendFresh(k, sel)
ClearSome == \E index \in IdxChoices : \E sel \in SelFew(hist) : HClear(index, sel)

\* a History that is only appended to
NextHist == AppendSome

SpecHist == InitHist /\ [][NextHist]_vars

\* a History that is appended to and cleared
NextHistClear ==
    \/ AppendFew
    \/ ClearSome

\* History(history=h, variables=v) with the smallest and the largest depth
InitHistClear ==
    /\ InitHist
    /\ hmax \in {1, MaxHist}

SpecHistClear == InitHistClear /\ [][NextHistClear]_vars

\* ---------------------------------------------------------------- Metric
MetricNames == {"default", "weights", "reverse"}
Vectors(n) == [1..n -> (-MaxAbs)..MaxAbs]

\* self._metric(b): the identity of _dummy_dot when no metric is given,
\* otherwise the caller's transform (a diagonal weighting, a permutation)
ApplyMetric_ignored(m, b) == b
ApplyMetric(m, b) ==
    IF m = "default" THEN b
    ELSE IF m = "weights" THEN [i \in 1..Len(b) |-> i * b[i]]
    ELSE Rev(b)

\* a.dot(x) of a vector type
RECURSIVE Dot(_, _)
Dot(a, x) == IF a = << >> THEN 0 ELSE Head(a) * Head(x) + Dot(Tail(a), Tail(x))
\* a * x and .sum()
Mul(a, x) == [i \in 1..Len(a) |-> a[i] * x[i]]
RECURSIVE Sum(_)
Sum(s) == IF s = << >> THEN 0 ELSE Head(s) + Sum(Tail(s))

\* Metric.inner: hasDot tells whether a.dot(..) succeeds; when it raises
\* the bare except takes the elementwise product and sums it
inner(m, a, b, hasDot) ==
    IF hasDot THEN Dot(a, ApplyMetric(m, b))
    ELSE Sum(Mul(a, ApplyMetric(m, b)))

Inner ==
    /\ ~metric.done
    /\ metric' = [metric EXCEPT !.res = inner(metric.m, metric.a, metric.b, metric.dot),
                                !.done = TRUE]
    /\ UNCHANGED two
    /\ UNCHANGED plugVars
    /\ UNCHANGED histVars

\* Metric(metric=m) and two operands of equal length
InitMetric ==
    /\ bound = FALSE
    /\ plugs = << >>
    /\ instAttrs = << >>
    /\ held = NoHeld
    /\ call = NoCall
    /\ last = NoLast
    /\ hist = << >>
    /\ hmax = 0
    /\ appended = << >>
    /\ napp = 0
    /\ hlast = HNone
    /\ coupled = TRUE
    /\ \E n \in 0..MaxLen : \E a \in Vectors(n) : \E b \in Vectors(n) :
          \E m \in MetricNames : \E d \in BOOLEAN :
             metric = [a |-> a, b |-> b, m |-> m, dot |-> d, res |-> 0, done |-> FALSE]
    /\ two = NoTwo

NextMetric == Inner

SpecMetric == InitMetric /\ [][NextMetric]_vars

\* ------------------------------------------- several History instances
\* reading a property wrapped in lru_cache(maxsize=1): a hit needs the
\* same instance as key; a miss computes the value and replaces the entry
CacheRead_anyKey(cache, who, actual) ==
    IF cache.key # 0 THEN [val |-> cache.val, cache |-> cache]
    ELSE [val |-> actual, cache |-> [key |-> who, val |-> actual]]
CacheRead(cache, who, actual) ==
    IF cache.key = who THEN [val |-> cache.val, cache |-> cache]
    ELSE [val |-> actual, cache |-> [key |-> who, val |-> actual]]

\* History(history=m, variables=v); ctor remembers the arguments (observer)
NewHistory(m, v) ==
    [hist |-> [i \in 1..v |-> << >>], hmax |-> m,
     ctor |-> [history |-> m, variables |-> v]]

\* h.variables / h.history_max / h.history read on instance who
ReadVariables(who) ==
    /\ LET r == CacheRead(two.vcache, who, variables(two.h[who].hist))
       IN two' = [two EXCEPT !.vcache = r.cache, !.rd = "variables",
                             !.who = who, !.val = r.val]
    /\ UNCHANGED metric
    /\ UNCHANGED plugVars
    /\ UNCHANGED histVars

ReadHistoryMax(who) ==
    /\ LET r == CacheRead(two.mcache, who, history_max(two.h[who].hmax))
       IN two' = [two EXCEPT !.mcache = r.cache, !.rd = "history_max",
                             !.who = who, !.val = r.val]
    /\ UNCHANGED metric
    /\ UNCHANGED plugVars
    /\ UNCHANGED histVars

ReadHistory(who) ==
    /\ two' = [two EXCEPT !.rd = "history", !.who = who,
                          !.val = history(two.h[who].hist)]
    /\ UNCHANGED metric
    /\ UNCHANGED plugVars
    /\ UNCHANGED histVars

\* the slots range(self.variables) names that exist; naming one that does
\* not exist raises IndexError
SlotsOf(n) == [i \in 1..n |-> i - 1]

\* h.append(x1, .., xv) on instance who, one value per variable it was
\* built with; line 104 reads self.variables through the cache
TwoAppend(who) ==
    /\ LET me == two.h[who]
           r == CacheRead(two.vcache, who, variables(me.hist))
           tg == SlotsOf(r.val)
           args == FreshArgs(0, me.ctor.variables)
       IN two' = [two EXCEPT !.vcache = r.cache, !.rd = "none", !.who = who, !.val = 0,
                             !.h[who].hist =
                                 IF LengthMismatch(args, tg) THEN me.hist
                                 ELSE AppendAll(me.hist, me.hmax, tg, args)]
    /\ UNCHANGED metric
    /\ UNCHANGED plugVars
    /\ UNCHANGED histVars

\* h.clear(variables=sel) on instance who; with variables omitted line 122
\* reads self.variables through the cache
TwoClear(who, sel) ==
    /\ LET me == two.h[who]
           r == IF sel.none
                THEN CacheRead(two.vcache, who, variables(me.hist))
                ELSE [val |-> 0, cache |-> two.vcache]
           all == IF sel.none THEN SlotsOf(r.val) ELSE sel.list
           tg == SelectSeq(all, LAMBDA t : t < Len(me.hist))
       IN two' = [two EXCEPT !.vcache = r.cache, !.rd = "none", !.who = who, !.val = 0,
                             !.h[who].hist = ClearWhole(me.hist, tg)]
    /\ UNCHANGED metric
    /\ UNCHANGED plugVars
    /\ UNCHANGED histVars

InitTwo ==
    /\ bound = FALSE
    /\ plugs = << >>
    /\ instAttrs = << >>
    /\ held = NoHeld
    /\ call = NoCall
    /\ last = NoLast
    /\ hist = << >>
    /\ hmax = 0
    /\ appended = << >>
    /\ napp = 0
    /\ hlast = HNone
    /\ coupled = TRUE
    /\ metric = NoMetric
    /\ \E m1 \in 0..MaxHist : \E v1 \in 1..MaxVars :
          \E m2 \in 0..MaxHist : \E v2 \in 1..MaxVars :
             two = [NoTwo EXCEPT !.h = <<NewHistory(m1, v1), NewHistory(m2, v2)>>]

NextTwo ==
    \/ \E who \in 1..2 : ReadVariables(who)
    \/ \E who \in 1..2 : ReadHistoryMax(who)
    \/ \E who \in 1..2 : ReadHistory(who)
    \/ \E who \in 1..2 : TwoAppend(who)
    \/ \E who \in 1..2 : \E sel \in {None, Given(<<0>>)} : TwoClear(who, sel)

SpecTwo == InitTwo /\ [][NextTwo]_vars

\* ================================================================ claims
\* the callable held is the one a read of its name yields right now, and
\* the last step was a call of it
JustCalled == last.op = "call" /\ held = GetAttribute(bound, plugs, instAttrs, held.name)
Wrapped == call.wrapped /\ call.fn # ""
CallerInplace(b) == HasKw(call.kwIn, "inplace") /\ KwVal(call.kwIn, "inplace") = b
Synthesized == ~HasKw(call.kwIn, "inplace") /\ Declares(call.fn)

\* the hooks the attachments register under key n, in insertion order
RECURSIVE RegisteredFor(_, _, _)
RegisteredFor(ps, n, phase) ==
    IF ps = << >> THEN << >>
    ELSE LET p == Head(ps)
             reg == IF phase = "pre" THEN p.pre ELSE p.post
         IN (IF n \in reg THEN <<Hook(p.name, phase, n)>> ELSE << >>)
            \o RegisteredFor(Tail(ps), n, phase)

BothHookOp ==
    /\ Len(plugs) = 2
    /\ plugs[1].name = "A" /\ plugs[2].name = "B"
    /\ \A i \in 1..2 : "op" \in plugs[i].pre /\ "op" \in plugs[i].post

\* C1: with attachments A then B both registering a pre- and a post-hook for
\* op, one invocation of the callable read as host.op runs exactly
\* A.pre, B.pre, op, B.post, A.post.
C1_StackOrder ==
    (JustCalled /\ call.fn = "op" /\ BothHookOp)
        => call.trace = << Hook("A", "pre", "op"), Hook("B", "pre", "op"), OpMark("op"),
                           Hook("B", "post", "op"), Hook("A", "post", "op") >>

\* C2: the pre- and post-hook lists built when callable n is read contain, for
\* every attachment, exactly the hook it registers under key n.
C2_HooksOfAccessedName ==
    (last.op = "getattr" /\ held.kind \in {"attr", "combi"})
        => /\ held.pre = RegisteredFor(plugs, held.name, "pre")
           /\ held.post = RegisteredFor(plugs, held.name, "post")

\* C3: a hooked call that is non-in-place (no flag passed and none declared, or
\* inplace=False passed) leaves the receiver equal to its pre-call snapshot.
C3_NonInplaceKeepsReceiver ==
    (Wrapped /\ (CallerInplace(FALSE) \/ (call.kwIn = NoKw /\ ~Declares(call.fn))))
        => call.after = call.before
C3_Witness ==
    /\ Wrapped /\ call.err = "none" /\ call.copied
    /\ (CallerInplace(FALSE) \/ (call.kwIn = NoKw /\ ~Declares(call.fn)))
    /\ Len(call.trace) > 1
    /\ call.result # call.before /\ call.after = call.before

\* C4 as stated: a hooked call that is in-place because inplace=True is passed
\* or because the flag is synthesized takes no copy and mutates the receiver.
C4_InplaceOrSynthesizedNoCopy ==
    (Wrapped /\ call.err = "none" /\ (CallerInplace(TRUE) \/ Synthesized))
        => /\ ~call.copied
           /\ call.resultIs = "recv"
           /\ call.after = call.result
\* C4 amended: a hooked call with inplace=True passed by the caller takes no
\* copy, returns the receiver, and receiver and result show the same post-call
\* state; a call whose flag is only synthesized works on a copy and leaves
\* the receiver as it was.
C4_ExplicitInplaceNoCopy ==
    /\ (Wrapped /\ call.err = "none" /\ CallerInplace(TRUE))
          => /\ ~call.copied
             /\ call.resultIs = "recv"
             /\ call.after = call.result
    /\ (Wrapped /\ call.err = "none" /\ Synthesized)
          => /\ call.copied
             /\ call.after = call.before
C4_Witness ==
    /\ Wrapped /\ call.err = "none" /\ CallerInplace(TRUE)
    /\ Len(call.trace) > 1
    /\ call.after # call.before /\ call.after = call.result

\* C5 as stated: every hook receives exactly the positional and keyword
\* arguments the outer caller passed.
C5_HooksSeeCallerArgs ==
    (Wrapped /\ call.err = "none")
        => /\ call.argsHook = call.args
           /\ call.kwHook = call.kwIn
\* C5 amended: every hook receives the caller's positional arguments and the
\* keyword arguments the operation itself receives: the caller's, plus
\* inplace=True exactly when the dispatcher synthesized it.
C5_HooksSeeOperationArgs ==
    (Wrapped /\ call.err = "none")
        => /\ call.argsHook = call.args
           /\ call.kwHook = call.kwOp
           /\ call.kwHook = IF Synthesized THEN call.kwIn \cup KwInplace(TRUE)
                            ELSE call.kwIn
C5_Witness ==
    /\ Wrapped /\ call.err = "none" /\ Synthesized
    /\ Len(call.trace) > 1
    /\ call.args = <<1>>
    /\ call.kwHook = KwInplace(TRUE)

\* C6: constructing a host terminates without error and leaves it with an
\* attachment set that exists and is empty.
C6_ConstructGivesEmptySet ==
    last.op = "init" => (last.err = "none" /\ bound /\ plugs = << >>)

\* C7: reading a callable member of a host with no attachments, or whose
\* attachments contribute no hook to that read, yields the original callable;
\* calling it runs the operation alone with the caller's arguments (and
\* nothing at all when those arguments do not bind to it).
NoneContributed(n) ==
    /\ RegisteredFor(plugs, n, "pre") = << >>
    /\ RegisteredFor(plugs, n, "post") = << >>
C7_UnhookedIsOriginal ==
    /\ (last.op = "getattr" /\ last.err = "none" /\ bound
          /\ OrdinaryCallable(instAttrs, last.name)
          /\ (plugs = << >> \/ NoneContributed(last.name)))
          => held.kind = "attr"
    /\ (JustCalled /\ (plugs = << >> \/ NoneContributed(held.name)))
          => /\ ~call.wrapped
             /\ call.trace = IF call.err = "none" THEN <<OpMark(call.fn)>> ELSE << >>
             /\ call.err # "none" => BindFails(call.fn, call.args, call.kwIn)
             /\ call.kwOp = call.kwIn
             /\ ~call.copied

\* C8: assigning a plain value to a name bound to an attachment raises
\* AttributeError and changes neither the attachment set nor the instance
\* attributes.
C8_ImmutableName ==
    [][(last'.op = "setattr" /\ bound /\ last'.name \in PlugNamesOf(plugs))
          => (last'.err = "AttributeError" /\ plugs' = plugs /\ instAttrs' = instAttrs)]_vars
C8_Witness ==
    /\ last.op = "setattr" /\ last.err = "AttributeError"
    /\ last.name \in PlugNamesOf(plugs)
    /\ last.name \notin DOMAIN instAttrs

\* C9: on a host with an attachment set, reading a name that is no ordinary
\* member yields the attachment bound to it, and raises AttributeError when
\* no attachment has that name.
C9_LookupByName ==
    (last.op = "getattr" /\ bound /\ ~OrdinaryHas(instAttrs, last.name))
        => IF last.name \in PlugNamesOf(plugs)
           THEN held.kind = "plug" /\ held.name = last.name /\ last.err = "none"
           ELSE held.kind = "AttributeError" /\ last.err = "AttributeError"
C9_Witness ==
    /\ last.op = "getattr" /\ held.kind = "plug" /\ held.name = "B"
    /\ Len(plugs) = 2

\* C10: after any sequence of appends every slot holds at most history_max
\* values, and they are the most recently appended ones in append order.
LastN(s, n) == SubSeq(s, Len(s) - n + 1, Len(s))
Min(a, b) == IF a < b THEN a ELSE b
C10_RollingWindow ==
    \A i \in 1..Len(hist) :
        /\ Len(hist[i]) <= history_max(hmax)
        /\ hist[i] = LastN(appended[i], Min(hmax, Len(appended[i])))
C10_Witness ==
    /\ hmax = 3 /\ variables(hist) = 2 /\ napp = 4
    /\ \A i \in 1..2 : Len(appended[i]) = 4
    /\ hist = << <<21, 31, 41>>, <<22, 32, 42>> >>

\* C14: when a pre-hook, the operation or a post-hook raises during a hooked
\* call, the caller gets that very condition, the steps after the raising
\* one are not run, nothing is retried or rolled back (an in-place call
\* keeps on the receiver what the completed steps did), and a non-in-place
\* call leaves the receiver equal to its pre-call snapshot.
C14_RaisePropagates ==
    (Wrapped /\ call.failAt > 0)
        => LET chain == Chain(held)
               done == SubSeq(chain, 1, call.failAt - 1)
           IN /\ call.err = call.raised
              /\ last.op = "call" => last.err = call.raised
              /\ call.trace = Append(done, chain[call.failAt])
              /\ call.resultIs = "none"
              /\ IF InplaceFlag(call.kwIn)
                 THEN call.after \in {call.before \o done,
                                      call.before \o Append(done, chain[call.failAt])}
                 ELSE call.after = call.before
C14_Witness ==
    /\ Wrapped /\ call.failAt = 2 /\ call.raised = "ValueError"
    /\ Len(Chain(held)) = 5
    /\ InplaceFlag(call.kwIn)
    /\ call.after = <<Hook("A", "pre", "A")>>

\* C15: with hooks that return their value unchanged, a hooked call accepts
\* the same arguments, returns the same result and leaves the receiver in the
\* same state as the call of the bare member with the same arguments.
Unhooked(st) == SelectSeq(st, LAMBDA m : m[2] = "op")
C15_HookedLikeUnhooked ==
    (last.op = "call" /\ Wrapped)
        => LET p == plain_call(held, call.recv, call.before, call.args, call.kwIn)
           IN /\ call.err = p.err
              /\ Unhooked(call.result) = p.result
              /\ Unhooked(call.after) = p.after
              /\ (call.resultIs = "recv") = (p.resultIs = "recv")

\* C17 as stated: a call runs the hooks of the attachment set as it is when
\* the call is made, whatever it was when the callable was read.
C17_HooksAtInvocationTime ==
    (last.op = "call" /\ call.err = "none")
        => call.trace = pre_funcs(plugs, call.fn) \o <<OpMark(call.fn)>>
                           \o Rev(post_funcs(plugs, call.fn))
\* C17 amended: the hook lists are built anew by every read of a callable
\* member from the attachment set of that moment; no other step changes the
\* callable held, and a call of it runs the hooks it was built with.
C17_HooksAtAccessTime ==
    [][/\ last'.op = "getattr" => held' = GetAttribute(bound, plugs, instAttrs, last'.name)
       /\ last'.op # "getattr" => held' = held
       /\ (last'.op = "call" /\ call'.err = "none")
             => call'.trace = held.pre \o <<OpMark(held.name)>> \o Rev(held.post)]_vars
C17_Witness ==
    /\ last.op = "call" /\ Wrapped /\ call.err = "none"
    /\ held.pre = <<Hook("A", "pre", "A")>>
    /\ pre_funcs(plugs, held.name) = <<Hook("A", "pre", "A"), Hook("B", "pre", "B")>>
    /\ call.trace = <<Hook("A", "pre", "A"), OpMark(held.name)>>

\* C18: in a hooked call the operation gets inplace=True added to its keyword
\* arguments exactly when it declares the parameter and the caller passed
\* none; a caller's value is kept and a callable that does not declare the
\* parameter gets none.
C18_SynthesizedIffDeclared ==
    (Wrapped /\ call.err = "none")
        => /\ (call.kwOp # call.kwIn)
                 <=> (Declares(call.fn) /\ ~HasKw(call.kwIn, "inplace"))
           /\ call.kwOp \ call.kwIn \subseteq KwInplace(TRUE)
           /\ call.kwIn \subseteq call.kwOp
           /\ ~Declares(call.fn) => ~HasKw(call.kwOp, "inplace")
C18_Witness ==
    /\ Wrapped /\ call.err = "none" /\ call.fn = "op"
    /\ call.kwIn = NoKw /\ call.kwOp = KwInplace(TRUE)
    /\ call.args = << >> /\ held.post # << >>

\* ------------------------------------------------------ History claims
SameLength == \A i \in 1..Len(hist) : Len(hist[i]) = history(hist)

\* C11 as stated: right after an append or clear with `variables` omitted,
\* whatever operations came before, all slots have the length that the
\* history property reports.
C11_CoupledAfterAllTarget ==
    (hlast.op \in {"append", "clear"} /\ hlast.name = "all") => SameLength
\* C11 amended: an append or clear with `variables` omitted acts on every
\* slot alike, whatever their lengths were.  A successful append brings each
\* slot to min(length + 1, history_max); one that raises changes nothing;
\* clear() with index omitted empties every slot; an indexed clear that
\* completes keeps equal lengths equal; one that raises IndexError on slots
\* of equal length has shortened slot 0 at most and left the others alone.
\* While every operation so far was of this kind and none raised
\* IndexError, all slots have the length the history property reports.
C11_AllTargetLengths ==
    [][(hlast'.op \in {"append", "clear"} /\ hlast'.name = "all")
          => /\ (hlast'.op = "append" /\ hlast'.err = "none")
                   => \A i \in 1..Len(hist) :
                          Len(hist'[i]) = Min(Len(hist[i]) + 1, history_max(hmax))
             /\ (hlast'.op = "append" /\ hlast'.err # "none") => hist' = hist
             /\ HClear(None, None) => \A i \in 1..Len(hist) : hist'[i] = << >>
             /\ (hlast'.op = "clear" /\ hlast'.err = "none" /\ SameLength)
                   => SameLength'
             /\ (hlast'.op = "clear" /\ hlast'.err = "IndexError" /\ SameLength)
                   => /\ Len(hist'[1]) <= Len(hist[1])
                      /\ \A i \in 2..Len(hist) : hist'[i] = hist[i]
             /\ coupled' => SameLength']_vars
\* an all-variables append that made unequal slots equal again by eviction
C11_Witness ==
    /\ ~coupled /\ hlast.op = "append" /\ hlast.name = "all" /\ hlast.err = "none"
    /\ variables(hist) = 2 /\ hmax = 1 /\ napp = 2
    /\ SameLength /\ history(hist) = 1

\* C12: an append whose number of values differs from the number of target
\* slots raises ValueError and leaves every slot as it was.
C12_LengthMismatch ==
    [][hlast'.op = "append"
          => \A k \in 1..MaxVars : \A sel \in SelFew(hist) :
                (/\ k # Len(Targets(hist, sel))
                 /\ Which(sel) = hlast'.name
                 /\ AppendFresh(k, sel))
                   => (hlast'.err = "ValueError" /\ hist' = hist)]_vars
C12_Witness ==
    /\ hlast.op = "append" /\ hlast.err = "ValueError"
    /\ napp >= 1 /\ \E i \in 1..Len(hist) : hist[i] # << >>

\* the elements of d that do not stand at a position of I (0-based)
Keep(d, I) ==
    LET F[j \in 0..Len(d)] ==
            IF j = 0 THEN << >>
            ELSE IF (j - 1) \in I THEN F[j - 1] ELSE Append(F[j - 1], d[j])
    IN F[Len(d)]
\* the list names distinct positions that exist in slot d
Positions(l, d) ==
    /\ \A j \in 1..Len(l) : l[j] >= 0 /\ l[j] < Len(d)
    /\ \A j, k \in 1..Len(l) : j # k => l[j] # l[k]

\* C13: clear(index=I), I a list of distinct positions of the selected slots
\* in any order, removes from each selected slot exactly the elements at the
\* positions of I counted before the clear, and keeps the others in order.
C13_ClearByPosition ==
    [][hlast'.op = "clear"
          => \A index \in IdxChoices : \A sel \in SelFew(hist) :
                (/\ ~index.none
                 /\ Targets(hist, sel) = hlast'.tg
                 /\ \A t \in Range(hlast'.tg) : Positions(index.list, hist[t + 1])
                 /\ HClear(index, sel))
                   => /\ hlast'.err = "none"
                      /\ \A t \in Range(hlast'.tg) :
                            hist'[t + 1] = Keep(hist[t + 1], Range(index.list))]_vars
C13_Witness ==
    /\ hlast.op = "clear" /\ hlast.err = "none" /\ napp = 4
    /\ hmax = 4 /\ variables(hist) = 1
    /\ hist[1] = <<21, 41>>

\* C16: Metric.inner(a, b) is the sum over the elements of a*b with the
\* default metric and of a*M(b) with a custom metric M, for integer vectors
\* of equal length, with and without a dot reduction on the value type.
Transformed(m, b, k) ==
    IF m = "default" THEN b[k]
    ELSE IF m = "weights" THEN k * b[k]
    ELSE b[Len(b) + 1 - k]
SumOfProducts(m, a, b) ==
    LET S[k \in 0..Len(a)] == IF k = 0 THEN 0 ELSE S[k - 1] + a[k] * Transformed(m, b, k)
    IN S[Len(a)]
C16_InnerIsSumOfProducts ==
    metric.done => metric.res = SumOfProducts(metric.m, metric.a, metric.b)
C16_Witness ==
    /\ metric.done /\ metric.m = "weights" /\ ~metric.dot
    /\ metric.a = <<1, 2>> /\ metric.b = <<2, -1>> /\ metric.res = -2

\* C19: whatever appends and clears were made, on either of two History
\* instances, each instance has and reports the number of variables and the
\* history_max it was constructed with; only the length reported by
\* history changes.
C19_FixedAfterConstruction ==
    /\ \A i \in 1..Len(two.h) :
          /\ variables(two.h[i].hist) = two.h[i].ctor.variables
          /\ history_max(two.h[i].hmax) = two.h[i].ctor.history
    /\ two.rd = "variables" => two.val = two.h[two.who].ctor.variables
    /\ two.rd = "history_max" => two.val = two.h[two.who].ctor.history
    /\ two.rd = "history" => two.val = Len(two.h[two.who].hist[1])
C19_Witness ==
    /\ two.rd = "variables" /\ two.who = 2 /\ two.val = 2
    /\ two.h[1].ctor = [history |-> 3, variables |-> 1]
    /\ two.h[2].ctor = [history |-> 2, variables |-> 2]
    /\ two.mcache = [key |-> 1, val |-> 3]
    /\ two.h[1].hist = << <<1, 1, 1>> >>
    /\ two.h[2].hist = << << >>, <<2, 2>> >>

\* C20: an append or clear given a `variables` selection leaves every slot
\* that is not selected as it was, and a clear with `index` omitted leaves
\* every selected slot empty.
C20_OnlySelectedSlots ==
    [][hlast'.op \in {"append", "clear"}
          => /\ \A i \in 1..Len(hist) :
                   (i - 1) \notin Range(hlast'.tg) => hist'[i] = hist[i]
             /\ \A sel \in SelFew(hist) :
                   (Targets(hist, sel) = hlast'.tg /\ HClear(None, sel))
                      => \A t \in Range(hlast'.tg) : hist'[t + 1] = << >>]_vars
C20_Witness ==
    /\ hlast.op = "clear" /\ hlast.name = "some" /\ hlast.err = "none"
    /\ variables(hist) = 2
    /\ hist[2] = << >> /\ Len(hist[1]) >= 2

====
